---- MODULE Spec2Model ----
(***************************************************************************)
(* State-machine model of the note service of saulpark/flask-project:      *)
(* NoteService (src/app/notes/services.py) over the Note table             *)
(* (src/app/models/note.py), stored in SQLite through the SQLAlchemy ORM.  *)
(*                                                                         *)
(* A content payload is the text handed to json.loads, kept as its         *)
(* sequence of lexical tokens; every token carries its length in           *)
(* characters and in UTF-8 bytes, so that payloads of two megabytes are    *)
(* represented without two million sequence elements.                      *)
(***************************************************************************)
EXTENDS Integers, Sequences, FiniteSets, TLC

(***************************************************************************)
(* Bounds of the model.                                                    *)
(***************************************************************************)
MaxId == 2        \* largest primary key the model lets SQLite assign
MaxTime == 1      \* largest reading of datetime.utcnow
MaxTokens == 2    \* number of values secrets.token_urlsafe can be asked for
MaxUserId == 2    \* largest primary key the model lets SQLite assign to a user

(***************************************************************************)
(* Program constants.                                                      *)
(***************************************************************************)
MAX_CONTENT_SIZE == 2 * 1024 * 1024
CURRENT_USER_ID == 1

UserIds == {CURRENT_USER_ID, 2}
Titles == {"Shopping", "x"}
Shopping == "Shopping"
NoteIds == 1..MaxId
Tokens == 1..MaxTokens
NoToken == 0                       \* share_token IS NULL
None == [id |-> 0]                 \* Python None returned by a lookup

(***************************************************************************)
(* Payload texts.                                                          *)
(***************************************************************************)
Punct(k) == [k |-> k, v |-> "", chars |-> 1, bytes |-> 1]
\* a quoted string whose body is `chars` characters and `bytes` UTF-8 bytes
Str(v, chars, bytes) == [k |-> "str", v |-> v, chars |-> chars + 2, bytes |-> bytes + 2]
\* a quoted string with a raw control character (line feed) inside
RawStr(v, chars) == [k |-> "rawstr", v |-> v, chars |-> chars + 2, bytes |-> chars + 2]
Num(v, chars) == [k |-> "num", v |-> v, chars |-> chars, bytes |-> chars]
\* a bare word that is none of true, false, null
Word(v, chars) == [k |-> "word", v |-> v, chars |-> chars, bytes |-> chars]

\* {"ops":[{"insert":<text>}]}
DeltaOf(text) ==
    << Punct("{"), Str("ops", 3, 3), Punct(":"), Punct("["),
       Punct("{"), Str("insert", 6, 6), Punct(":"), text, Punct("}"),
       Punct("]"), Punct("}") >>

\* {"ops":[{"insert":"Hello\n"}]}             tests/test_notes_service.py:32
Hello == DeltaOf(Str("Hello\\n", 7, 7))
\* {"ops":[]}                                  tests/test_notes_service.py:132
EmptyOps == << Punct("{"), Str("ops", 3, 3), Punct(":"), Punct("["), Punct("]"), Punct("}") >>
\* 123: JSON, but no object
Number == << Num("123", 3) >>
\* {"foo":1}: a JSON object without an operation list
FooObject == << Punct("{"), Str("foo", 3, 3), Punct(":"), Num("1", 1), Punct("}") >>
\* a well-formed delta of exactly MAX_CONTENT_SIZE bytes (23 bytes of frame)
AtLimit == DeltaOf(Str("x..x", MAX_CONTENT_SIZE - 23, MAX_CONTENT_SIZE - 23))
\* the same with one more byte
OverLimit == DeltaOf(Str("x..x", MAX_CONTENT_SIZE - 22, MAX_CONTENT_SIZE - 22))
\* two-byte characters: fewer than MAX_CONTENT_SIZE characters, one byte too many
WideOver == DeltaOf(Str("e'..e'", 1048565, 2 * 1048565))
\* '{"ops":[{"insert":"' + 'x' * (3 * 1024 * 1024) + '"}]}'   tests/test_notes_service.py:57
ThreeMB == DeltaOf(Str("x..x", 3 * 1024 * 1024, 3 * 1024 * 1024))
\* not a valid json                            tests/test_notes_service.py:48
NotJson == << Word("not", 3), Word("json", 4) >>
\* {"ops":[{"insert":"Hello\n"}]   (closing brace missing)
Unclosed == SubSeq(Hello, 1, 10)
\* {} x   (data after the value)
ExtraData == << Punct("{"), Punct("}"), Word("x", 1) >>
\* the wrapping of notes/routes.py:33 around text holding a line feed
RawNewline == DeltaOf(RawStr("a<LF>b\\n", 5))
\* three megabytes that are no JSON either
BigGarbage == << Word("x..x", 3 * 1024 * 1024) >>

\* every payload of the model
Payloads == { Hello, EmptyOps, Number, FooObject, AtLimit, OverLimit, WideOver, ThreeMB,
              NotJson, Unclosed, ExtraData, RawNewline, BigGarbage }
\* the (title, content) forms submitted in Spec, where every note belongs to
\* CURRENT_USER_ID as in notes/routes.py: two that validate, two that do not
Edits == { << Shopping, Hello >>, << "x", Number >> }
BadEdits == { << "x", NotJson >>, << Shopping, OverLimit >> }
\* the (owner, title, content) requests of SpecContent: every payload once,
\* under either owner and either title
Requests == { << 1, Shopping, Hello >>, << 2, "x", EmptyOps >>, << 1, "x", Number >>,
              << 2, Shopping, FooObject >>, << 2, "x", AtLimit >>,
              << 1, "x", OverLimit >>, << 2, Shopping, WideOver >>,
              << 1, Shopping, ThreeMB >>, << 1, "x", NotJson >>,
              << 2, "x", Unclosed >>, << 1, Shopping, ExtraData >>,
              << 2, Shopping, RawNewline >>, << 1, "x", BigGarbage >> }

(***************************************************************************)
(* json.loads: the recursive-descent scanner of Python's json.decoder over *)
(* the token sequence.  scan_once, JSONObject and JSONArray return the     *)
(* index after what they consumed, or 0 where the scanner raises           *)
(* JSONDecodeError.                                                        *)
(***************************************************************************)
RECURSIVE scan_once(_, _), JSONObject(_, _), JSONArray(_, _)
scan_once(s, i) ==
    IF i > Len(s) THEN 0
    ELSE CASE s[i].k \in {"str", "num", "lit"} -> i + 1
           [] s[i].k = "{" ->
                 IF i + 1 <= Len(s) /\ s[i + 1].k = "}" THEN i + 2 ELSE JSONObject(s, i + 1)
           [] s[i].k = "[" ->
                 IF i + 1 <= Len(s) /\ s[i + 1].k = "]" THEN i + 2 ELSE JSONArray(s, i + 1)
           [] OTHER -> 0

\* i is at a key of an object
JSONObject(s, i) ==
    IF i + 1 > Len(s) \/ s[i].k # "str" \/ s[i + 1].k # ":" THEN 0
    ELSE LET j == scan_once(s, i + 2) IN
         IF j = 0 \/ j > Len(s) THEN 0
         ELSE IF s[j].k = "}" THEN j + 1
         ELSE IF s[j].k = "," THEN JSONObject(s, j + 1)
         ELSE 0

\* i is at an element of an array
JSONArray(s, i) ==
    LET j == scan_once(s, i) IN
    IF j = 0 \/ j > Len(s) THEN 0
    ELSE IF s[j].k = "]" THEN j + 1
    ELSE IF s[j].k = "," THEN JSONArray(s, j + 1)
    ELSE 0

\* TRUE iff json.loads(text) returns, FALSE iff it raises JSONDecodeError
json_loads(s) == scan_once(s, 1) = Len(s) + 1

RECURSIVE SumOf(_, _)
SumOf(s, field) == IF s = << >> THEN 0 ELSE Head(s)[field] + SumOf(Tail(s), field)

\* len(content_delta)
str_len(s) == SumOf(s, "chars")

\* variant: the size is taken in characters, the encode('utf-8') forgotten
utf8_len_chars(s) == str_len(s)

\* len(content_delta.encode('utf-8'))
utf8_len(s) == SumOf(s, "bytes")

(***************************************************************************)
(* State.                                                                  *)
(*   notes    the rows of table "notes", keyed by primary key              *)
(*   now      the reading of datetime.utcnow                               *)
(*   issued   how many values secrets.token_urlsafe has produced           *)
(*   revoked  the tokens share_note once returned whose sharing has since  *)
(*            been ended by unshare, by a new share or by delete           *)
(*   last     the service call made by the latest step, with its outcome   *)
(*   users    the rows of table "users", keyed by primary key              *)
(*   sessions the requests in flight: what each has loaded into its        *)
(*            SQLAlchemy session and assigned there, not yet committed     *)
(***************************************************************************)
VARIABLES notes, now, issued, revoked, last, users, sessions
vars == << notes, now, issued, revoked, last, users, sessions >>

\* the messages of the ValueError the service raises, and of the database
Ok == "ok"
InvalidJson == "Invalid JSON content"
TooLarge == "Content exceeds maximum size of 2 MB"
NotFound == "Note not found"
IntegrityError == "UNIQUE constraint failed: notes.share_token"

Idle == [op |-> "none", note_id |-> 0, user_id |-> 0, title |-> "",
         content_delta |-> << >>, error |-> Ok, token |-> NoToken, old_token |-> NoToken,
         email |-> << >>, password |-> "", old_password |-> "", cascaded |-> {}]

\* a call that raised: nothing but the call and its message is observed
Raise(op, note_id, content_delta, error) ==
    [Idle EXCEPT !.op = op, !.note_id = note_id, !.content_delta = content_delta,
                 !.error = error]

\* variant: title=title left out of the constructor call, the column stays empty
Note_untitled(id, user_id, title, content_delta) ==
    [id |-> id, user_id |-> user_id, title |-> "", content_delta |-> content_delta,
     is_shared |-> FALSE, share_token |-> NoToken,
     created_at |-> now, updated_at |-> now]

\* Note(user_id=, title=, content_delta=) with the column defaults of the model
Note(id, user_id, title, content_delta) ==
    [id |-> id, user_id |-> user_id, title |-> title, content_delta |-> content_delta,
     is_shared |-> FALSE, share_token |-> NoToken,
     created_at |-> now, updated_at |-> now]

\* the rowid SQLite gives the next INSERT: one more than the largest in the table
NextId == IF DOMAIN notes = {} THEN 1
          ELSE (CHOOSE m \in DOMAIN notes : \A k \in DOMAIN notes : k <= m) + 1

\* db.session.get(Note, note_id) on the table rows
session_get(rows, note_id) == IF note_id \in DOMAIN rows THEN rows[note_id] ELSE None

\* Note.query.filter_by(share_token=share_token, is_shared=True).first() on the table rows
query_by_token(rows, share_token) ==
    LET hits == { k \in DOMAIN rows : rows[k].share_token = share_token
                                      /\ rows[k].is_shared } IN
    IF hits = {} THEN None
    ELSE rows[CHOOSE k \in hits : \A h \in hits : k <= h]

get_note_by_id(note_id) == session_get(notes, note_id)

get_note_by_token(share_token) == query_by_token(notes, share_token)

\* the values secrets.token_urlsafe(32) can return: 256 random bits, taken
\* never to repeat a value the process has produced before
token_urlsafe == { issued + 1 }

\* variant: updated_at declared without onupdate
flush_update_no_onupdate(row) ==
    IF row = notes[row.id] THEN notes ELSE [notes EXCEPT ![row.id] = row]

\* db.session.commit() after attribute assignments on a loaded row: the unit
\* of work emits an UPDATE only if some attribute differs from the loaded
\* value, and the onupdate of updated_at runs only as part of that UPDATE
flush_update(row) ==
    IF row = notes[row.id] THEN notes
    ELSE [notes EXCEPT ![row.id] = [row EXCEPT !.updated_at = now]]

\* db.session.add(note); db.session.commit()
flush_insert(row) == [k \in DOMAIN notes \cup {row.id} |-> IF k = row.id THEN row ELSE notes[k]]

\* db.session.delete(note); db.session.commit()
flush_delete(note_id) == [k \in DOMAIN notes \ {note_id} |-> notes[k]]

\* the requests that can be in flight together
Workers == {1, 2}
\* a request that has not started
NoSession == [op |-> "none"]

Init ==
    /\ notes = << >>
    /\ now = 0
    /\ issued = 0
    /\ revoked = {}
    /\ last = Idle
    /\ users = << >>
    /\ sessions = [w \in Workers |-> NoSession]

create_note(user_id, title, content_delta) ==
    /\ UNCHANGED << now, issued, revoked >>
    /\ UNCHANGED << users, sessions >>
    /\ IF ~json_loads(content_delta)
       THEN /\ last' = Raise("create", 0, content_delta, InvalidJson)
            /\ UNCHANGED notes
       ELSE IF utf8_len(content_delta) > MAX_CONTENT_SIZE
       THEN /\ last' = Raise("create", 0, content_delta, TooLarge)
            /\ UNCHANGED notes
       ELSE /\ NextId <= MaxId
            /\ notes' = flush_insert(Note(NextId, user_id, title, content_delta))
            /\ last' = [Idle EXCEPT !.op = "create", !.note_id = NextId,
                                    !.user_id = user_id, !.title = title,
                                    !.content_delta = content_delta]

\* variant: the attributes are assigned and committed before the validation
update_note_write_first(note_id, title, content_delta) ==
    /\ UNCHANGED << now, issued, revoked >>
    /\ UNCHANGED << users, sessions >>
    /\ IF get_note_by_id(note_id) = None
       THEN /\ last' = Raise("update", note_id, << >>, NotFound)
            /\ UNCHANGED notes
       ELSE /\ notes' = flush_update([notes[note_id] EXCEPT !.title = title,
                                                      !.content_delta = content_delta])
            /\ last' = IF ~json_loads(content_delta)
                       THEN Raise("update", note_id, content_delta, InvalidJson)
                       ELSE IF utf8_len(content_delta) > MAX_CONTENT_SIZE
                       THEN Raise("update", note_id, content_delta, TooLarge)
                       ELSE [Idle EXCEPT !.op = "update", !.note_id = note_id,
                                         !.title = title, !.content_delta = content_delta]

\* variant: the size check present in create_note only
update_note_no_size_check(note_id, title, content_delta) ==
    /\ UNCHANGED << now, issued, revoked >>
    /\ UNCHANGED << users, sessions >>
    /\ IF get_note_by_id(note_id) = None
       THEN /\ last' = Raise("update", note_id, << >>, NotFound)
            /\ UNCHANGED notes
       ELSE IF ~json_loads(content_delta)
       THEN /\ last' = Raise("update", note_id, content_delta, InvalidJson)
            /\ UNCHANGED notes
       ELSE /\ notes' = flush_update([notes[note_id] EXCEPT !.title = title,
                                                      !.content_delta = content_delta])
            /\ last' = [Idle EXCEPT !.op = "update", !.note_id = note_id,
                                    !.title = title, !.content_delta = content_delta]

\* variant: an edit also ends the sharing of the note
update_note_resets_share(note_id, title, content_delta) ==
    /\ UNCHANGED << now, issued, revoked >>
    /\ UNCHANGED << users, sessions >>
    /\ IF get_note_by_id(note_id) = None
       THEN /\ last' = Raise("update", note_id, << >>, NotFound)
            /\ UNCHANGED notes
       ELSE IF ~json_loads(content_delta)
       THEN /\ last' = Raise("update", note_id, content_delta, InvalidJson)
            /\ UNCHANGED notes
       ELSE IF utf8_len(content_delta) > MAX_CONTENT_SIZE
       THEN /\ last' = Raise("update", note_id, content_delta, TooLarge)
            /\ UNCHANGED notes
       ELSE /\ notes' = flush_update([notes[note_id] EXCEPT !.title = title,
                                                      !.content_delta = content_delta,
                                                      !.is_shared = FALSE,
                                                      !.share_token = NoToken])
            /\ last' = [Idle EXCEPT !.op = "update", !.note_id = note_id,
                                    !.title = title, !.content_delta = content_delta]

update_note(note_id, title, content_delta) ==
    /\ UNCHANGED << now, issued, revoked >>
    /\ UNCHANGED << users, sessions >>
    /\ IF get_note_by_id(note_id) = None
       THEN /\ last' = Raise("update", note_id, << >>, NotFound)
            /\ UNCHANGED notes
       ELSE IF ~json_loads(content_delta)
       THEN /\ last' = Raise("update", note_id, content_delta, InvalidJson)
            /\ UNCHANGED notes
       ELSE IF utf8_len(content_delta) > MAX_CONTENT_SIZE
       THEN /\ last' = Raise("update", note_id, content_delta, TooLarge)
            /\ UNCHANGED notes
       ELSE /\ notes' = flush_update([notes[note_id] EXCEPT !.title = title,
                                                      !.content_delta = content_delta])
            /\ last' = [Idle EXCEPT !.op = "update", !.note_id = note_id,
                                    !.title = title, !.content_delta = content_delta]

\* variant: db.session.delete(note) left out, the commit has nothing to write
delete_note_no_delete(note_id) ==
    /\ UNCHANGED << now, issued >>
    /\ UNCHANGED << users, sessions >>
    /\ IF get_note_by_id(note_id) = None
       THEN /\ last' = Raise("delete", note_id, << >>, NotFound)
            /\ UNCHANGED << notes, revoked >>
       ELSE /\ UNCHANGED notes
            /\ revoked' = revoked \cup ({notes[note_id].share_token} \ {NoToken})
            /\ last' = [Idle EXCEPT !.op = "delete", !.note_id = note_id]

delete_note(note_id) ==
    /\ UNCHANGED << now, issued >>
    /\ UNCHANGED << users, sessions >>
    /\ IF get_note_by_id(note_id) = None
       THEN /\ last' = Raise("delete", note_id, << >>, NotFound)
            /\ UNCHANGED << notes, revoked >>
       ELSE /\ notes' = flush_delete(note_id)
            /\ revoked' = revoked \cup ({notes[note_id].share_token} \ {NoToken})
            /\ last' = [Idle EXCEPT !.op = "delete", !.note_id = note_id]

\* variant: a note that is shared already keeps the token it has
share_note_keep_token(note_id) ==
    /\ UNCHANGED now
    /\ UNCHANGED << users, sessions >>
    /\ IF get_note_by_id(note_id) = None
       THEN /\ last' = Raise("share", note_id, << >>, NotFound)
            /\ UNCHANGED << notes, issued, revoked >>
       ELSE IF notes[note_id].share_token # NoToken
       THEN /\ UNCHANGED << notes, issued >>
            /\ revoked' = revoked \cup {notes[note_id].share_token}
            /\ last' = [Idle EXCEPT !.op = "share", !.note_id = note_id,
                                    !.token = notes[note_id].share_token,
                                    !.old_token = notes[note_id].share_token]
       ELSE \E tok \in token_urlsafe :
            /\ issued < MaxTokens
            /\ issued' = issued + 1
            /\ notes' = flush_update([notes[note_id] EXCEPT !.is_shared = TRUE,
                                                      !.share_token = tok])
            /\ UNCHANGED revoked
            /\ last' = [Idle EXCEPT !.op = "share", !.note_id = note_id, !.token = tok]

\* variant: note.is_shared = True left out, only the token is stored
share_note_flag_unset(note_id) ==
    /\ UNCHANGED now
    /\ UNCHANGED << users, sessions >>
    /\ IF get_note_by_id(note_id) = None
       THEN /\ last' = Raise("share", note_id, << >>, NotFound)
            /\ UNCHANGED << notes, issued, revoked >>
       ELSE \E tok \in token_urlsafe :
            /\ issued < MaxTokens
            /\ issued' = issued + 1
            /\ notes' = flush_update([notes[note_id] EXCEPT !.share_token = tok])
            /\ revoked' = revoked \cup ({notes[note_id].share_token} \ {NoToken})
            /\ last' = [Idle EXCEPT !.op = "share", !.note_id = note_id,
                                    !.token = tok,
                                    !.old_token = notes[note_id].share_token]

\* variant: the token is any value, one in use included, and no unique
\* index stands in the way
share_note_any_token(note_id) ==
    /\ UNCHANGED now
    /\ UNCHANGED << users, sessions >>
    /\ IF get_note_by_id(note_id) = None
       THEN /\ last' = Raise("share", note_id, << >>, NotFound)
            /\ UNCHANGED << notes, issued, revoked >>
       ELSE \E tok \in Tokens :
            /\ issued < MaxTokens
            /\ issued' = issued + 1
            /\ notes' = flush_update([notes[note_id] EXCEPT !.is_shared = TRUE,
                                                           !.share_token = tok])
            /\ revoked' = revoked \cup ({notes[note_id].share_token} \ {NoToken, tok})
            /\ last' = [Idle EXCEPT !.op = "share", !.note_id = note_id,
                                    !.token = tok,
                                    !.old_token = notes[note_id].share_token]

share_note(note_id) ==
    /\ UNCHANGED now
    /\ UNCHANGED << users, sessions >>
    /\ IF get_note_by_id(note_id) = None
       THEN /\ last' = Raise("share", note_id, << >>, NotFound)
            /\ UNCHANGED << notes, issued, revoked >>
       ELSE \E tok \in token_urlsafe :
            /\ issued < MaxTokens
            /\ issued' = issued + 1
            /\ IF \E k \in DOMAIN notes \ {note_id} : notes[k].share_token = tok
               THEN \* the unique index on share_token rejects the UPDATE
                    /\ last' = Raise("share", note_id, << >>, IntegrityError)
                    /\ UNCHANGED << notes, revoked >>
               ELSE /\ notes' = flush_update([notes[note_id] EXCEPT !.is_shared = TRUE,
                                                              !.share_token = tok])
                    /\ revoked' = revoked \cup ({notes[note_id].share_token} \ {NoToken})
                    /\ last' = [Idle EXCEPT !.op = "share", !.note_id = note_id,
                                            !.token = tok,
                                            !.old_token = notes[note_id].share_token]

\* variant: note.share_token = None left out, only the flag is cleared
unshare_note_keeps_token(note_id) ==
    /\ UNCHANGED << now, issued >>
    /\ UNCHANGED << users, sessions >>
    /\ IF get_note_by_id(note_id) = None
       THEN /\ last' = Raise("unshare", note_id, << >>, NotFound)
            /\ UNCHANGED << notes, revoked >>
       ELSE /\ notes' = flush_update([notes[note_id] EXCEPT !.is_shared = FALSE])
            /\ revoked' = revoked \cup ({notes[note_id].share_token} \ {NoToken})
            /\ last' = [Idle EXCEPT !.op = "unshare", !.note_id = note_id]

\* variant: db.session.commit() left out, the assignments are never written
unshare_note_no_commit(note_id) ==
    /\ UNCHANGED << now, issued >>
    /\ UNCHANGED << users, sessions >>
    /\ IF get_note_by_id(note_id) = None
       THEN /\ last' = Raise("unshare", note_id, << >>, NotFound)
            /\ UNCHANGED << notes, revoked >>
       ELSE /\ UNCHANGED notes
            /\ revoked' = revoked \cup ({notes[note_id].share_token} \ {NoToken})
            /\ last' = [Idle EXCEPT !.op = "unshare", !.note_id = note_id]

unshare_note(note_id) ==
    /\ UNCHANGED << now, issued >>
    /\ UNCHANGED << users, sessions >>
    /\ IF get_note_by_id(note_id) = None
       THEN /\ last' = Raise("unshare", note_id, << >>, NotFound)
            /\ UNCHANGED << notes, revoked >>
       ELSE /\ notes' = flush_update([notes[note_id] EXCEPT !.is_shared = FALSE,
                                                      !.share_token = NoToken])
            /\ revoked' = revoked \cup ({notes[note_id].share_token} \ {NoToken})
            /\ last' = [Idle EXCEPT !.op = "unshare", !.note_id = note_id]

\* datetime.utcnow moves on between two calls
Tick ==
    /\ now < MaxTime
    /\ now' = now + 1
    /\ last' = Idle
    /\ UNCHANGED << notes, issued, revoked >>
    /\ UNCHANGED << users, sessions >>

(***************************************************************************)
(* UserService (src/app/services/user_service.py) over table "users".      *)
(* The columns of the User model (app/models/user.py), its password hash   *)
(* and the cascade of its notes relationship follow the specification.     *)
(***************************************************************************)
\* two addresses that hold an '@', invalid-email and the empty string,
\* character by character
EmailA == << "a", "@", "b", ".", "c", "o", "m" >>
EmailC == << "c", "@", "d", ".", "c", "o", "m" >>
EmailNoAt == << "i", "n", "v", "a", "l", "i", "d", "-", "e", "m", "a", "i", "l" >>
EmailEmpty == << >>
Emails == { EmailA, EmailC, EmailNoAt, EmailEmpty }
Passwords == { "password123", "new_password123", "12345", "" }
UserTableIds == 1..MaxUserId

EmailTaken == "Email already registered"
InvalidEmail == "Invalid email format"
WeakPassword == "Password must be at least 6 characters"
UserNotFound == "User not found"
WrongPassword == "Current password is incorrect"
WeakNewPassword == "New password must be at least 6 characters"

\* '@' in email
contains_at(email) == \E i \in 1..Len(email) : email[i] = "@"

\* the salted one-way hash of a password: nothing but verification reads it
generate_password_hash(password) == << "hash", password >>

\* User.check_password(password): verifies password against the stored hash
check_password(user, password) == user.password_hash = generate_password_hash(password)

\* User(email=email) followed by user.set_password(password)
User(id, email, password) ==
    [id |-> id, email |-> email, password_hash |-> generate_password_hash(password),
     created_at |-> now]

\* the rowid SQLite gives the next INSERT into users
NextUserId == IF DOMAIN users = {} THEN 1
              ELSE (CHOOSE m \in DOMAIN users : \A k \in DOMAIN users : k <= m) + 1

\* db.session.get(User, user_id)
get_user_by_id(user_id) == session_get(users, user_id)

\* User.query.filter_by(email=email).first() on the table rows
query_by_email(rows, email) ==
    LET hits == { k \in DOMAIN rows : rows[k].email = email } IN
    IF hits = {} THEN None
    ELSE rows[CHOOSE k \in hits : \A h \in hits : k <= h]

get_user_by_email(email) == query_by_email(users, email)

\* a call of the user service that raised
RaiseUser(op, user_id, email, password, error) ==
    [Idle EXCEPT !.op = op, !.user_id = user_id, !.email = email,
                 !.password = password, !.error = error]

\* variant: the lookup of an existing user with the email left out
create_user_no_lookup(email, password) ==
    /\ UNCHANGED << notes, now, issued, revoked, sessions >>
    /\ IF email = << >> \/ ~contains_at(email)
       THEN /\ last' = RaiseUser("create_user", 0, email, password, InvalidEmail)
            /\ UNCHANGED users
       ELSE IF password = "" \/ Len(password) < 6
       THEN /\ last' = RaiseUser("create_user", 0, email, password, WeakPassword)
            /\ UNCHANGED users
       ELSE /\ NextUserId <= MaxUserId
            /\ users' = [k \in DOMAIN users \cup {NextUserId} |->
                            IF k = NextUserId THEN User(NextUserId, email, password)
                            ELSE users[k]]
            /\ last' = [Idle EXCEPT !.op = "create_user", !.user_id = NextUserId,
                                    !.email = email, !.password = password]

create_user(email, password) ==
    /\ UNCHANGED << notes, now, issued, revoked, sessions >>
    /\ IF get_user_by_email(email) # None
       THEN /\ last' = RaiseUser("create_user", 0, email, password, EmailTaken)
            /\ UNCHANGED users
       ELSE IF email = << >> \/ ~contains_at(email)
       THEN /\ last' = RaiseUser("create_user", 0, email, password, InvalidEmail)
            /\ UNCHANGED users
       ELSE IF password = "" \/ Len(password) < 6
       THEN /\ last' = RaiseUser("create_user", 0, email, password, WeakPassword)
            /\ UNCHANGED users
       ELSE /\ NextUserId <= MaxUserId
            /\ users' = [k \in DOMAIN users \cup {NextUserId} |->
                            IF k = NextUserId THEN User(NextUserId, email, password)
                            ELSE users[k]]
            /\ last' = [Idle EXCEPT !.op = "create_user", !.user_id = NextUserId,
                                    !.email = email, !.password = password]

\* variant: any stored user with the email is returned, the password not verified
authenticate_unchecked(rows, email, password) == query_by_email(rows, email)

\* UserService.authenticate against the table rows: the user, or None
authenticate(rows, email, password) ==
    LET user == query_by_email(rows, email) IN
    IF user # None /\ check_password(user, password) THEN user ELSE None

\* variant: the verification of the current password left out
update_password_unverified(user_id, old_password, new_password) ==
    /\ UNCHANGED << notes, now, issued, revoked, sessions >>
    /\ IF get_user_by_id(user_id) = None
       THEN /\ last' = [RaiseUser("update_password", user_id, << >>, new_password, UserNotFound)
                              EXCEPT !.old_password = old_password]
            /\ UNCHANGED users
       ELSE IF new_password = "" \/ Len(new_password) < 6
       THEN /\ last' = [RaiseUser("update_password", user_id, << >>, new_password, WeakNewPassword)
                              EXCEPT !.old_password = old_password]
            /\ UNCHANGED users
       ELSE /\ users' = [users EXCEPT ![user_id].password_hash =
                                         generate_password_hash(new_password)]
            /\ last' = [Idle EXCEPT !.op = "update_password", !.user_id = user_id,
                                    !.password = new_password,
                                    !.old_password = old_password]

update_password(user_id, old_password, new_password) ==
    /\ UNCHANGED << notes, now, issued, revoked, sessions >>
    /\ IF get_user_by_id(user_id) = None
       THEN /\ last' = [RaiseUser("update_password", user_id, << >>, new_password, UserNotFound)
                              EXCEPT !.old_password = old_password]
            /\ UNCHANGED users
       ELSE IF ~check_password(users[user_id], old_password)
       THEN /\ last' = [RaiseUser("update_password", user_id, << >>, new_password, WrongPassword)
                              EXCEPT !.old_password = old_password]
            /\ UNCHANGED users
       ELSE IF new_password = "" \/ Len(new_password) < 6
       THEN /\ last' = [RaiseUser("update_password", user_id, << >>, new_password, WeakNewPassword)
                              EXCEPT !.old_password = old_password]
            /\ UNCHANGED users
       ELSE /\ users' = [users EXCEPT ![user_id].password_hash =
                                         generate_password_hash(new_password)]
            /\ last' = [Idle EXCEPT !.op = "update_password", !.user_id = user_id,
                                    !.password = new_password,
                                    !.old_password = old_password]

\* the notes left when the delete of a user cascades to the notes it owns
cascade_delete(rows, user_id) ==
    [k \in { n \in DOMAIN rows : rows[n].user_id # user_id } |-> rows[k]]

\* variant: db.session.delete(user) left out, the commit has nothing to write
delete_user_no_delete(user_id) ==
    /\ UNCHANGED << now, issued, sessions >>
    /\ IF get_user_by_id(user_id) = None
       THEN /\ last' = RaiseUser("delete_user", user_id, << >>, "", UserNotFound)
            /\ UNCHANGED << users, notes, revoked >>
       ELSE /\ UNCHANGED << users, notes, revoked >>
            /\ last' = [Idle EXCEPT !.op = "delete_user", !.user_id = user_id]

delete_user(user_id) ==
    /\ UNCHANGED << now, issued, sessions >>
    /\ IF get_user_by_id(user_id) = None
       THEN /\ last' = RaiseUser("delete_user", user_id, << >>, "", UserNotFound)
            /\ UNCHANGED << users, notes, revoked >>
       ELSE /\ users' = [k \in DOMAIN users \ {user_id} |-> users[k]]
            /\ notes' = cascade_delete(notes, user_id)
            /\ revoked' = revoked \cup
                  ({ notes[k].share_token : k \in { n \in DOMAIN notes :
                                                      notes[n].user_id = user_id } }
                   \ {NoToken})
            /\ last' = [Idle EXCEPT !.op = "delete_user", !.user_id = user_id,
                                    !.cascaded = { n \in DOMAIN notes :
                                                     notes[n].user_id = user_id }]

\* variant: the rows ordered by updated_at ascending
query_by_owner_asc(rows, user_id) ==
    LET own == { k \in DOMAIN rows : rows[k].user_id = user_id } IN
    { q \in [1..Cardinality(own) -> own] :
         /\ \A i, j \in 1..Cardinality(own) : i # j => q[i] # q[j]
         /\ \A i, j \in 1..Cardinality(own) :
               i < j => rows[q[i]].updated_at <= rows[q[j]].updated_at }

\* Note.query.filter_by(user_id=user_id).order_by(Note.updated_at.desc()).all()
\* on the table rows: the orders the database may return, rows of equal
\* updated_at in any order
query_by_owner(rows, user_id) ==
    LET own == { k \in DOMAIN rows : rows[k].user_id = user_id } IN
    { q \in [1..Cardinality(own) -> own] :
         /\ \A i, j \in 1..Cardinality(own) : i # j => q[i] # q[j]
         /\ \A i, j \in 1..Cardinality(own) :
               i < j => rows[q[i]].updated_at >= rows[q[j]].updated_at }

\* NoteService.get_all_notes: the lists of note ids a call may return
get_all_notes(user_id) == query_by_owner(notes, user_id)

(***************************************************************************)
(* Requests in flight together.  Each request has a session of its own:    *)
(* db.session.get reads the row (the driver opens no transaction for a     *)
(* SELECT), the assignments change the copy the session holds, and         *)
(* db.session.commit writes, in one transaction, an UPDATE of the columns   *)
(* whose assigned value differs from the loaded one.                       *)
(***************************************************************************)
\* the columns a request can assign
Assignable == { "title", "content_delta", "is_shared", "share_token" }
UpdateContents == { Hello, Number }

\* the session of a request: the row as loaded and the row as assigned
Session(op, loaded, row) ==
    [op |-> op, note_id |-> loaded.id, loaded |-> loaded, row |-> row, committed |-> FALSE]

\* the columns the UPDATE of the session sets
Dirty(s) == { c \in Assignable : s.row[c] # s.loaded[c] }

\* the table after the flush of the session: no UPDATE when nothing differs
flush_session(s) ==
    IF Dirty(s) = {} THEN notes
    ELSE [notes EXCEPT ![s.note_id] =
             [c \in DOMAIN notes[s.note_id] |->
                 IF c \in Dirty(s) THEN s.row[c]
                 ELSE IF c = "updated_at" THEN now
                 ELSE notes[s.note_id][c]]]

\* share_note up to the commit: load the note, set the flag and a new token
share_note_load(w, note_id) ==
    /\ sessions[w] = NoSession
    /\ UNCHANGED << notes, now, revoked, users >>
    /\ IF get_note_by_id(note_id) = None
       THEN /\ last' = Raise("share", note_id, << >>, NotFound)
            /\ UNCHANGED << issued, sessions >>
       ELSE \E tok \in token_urlsafe :
            /\ issued < MaxTokens
            /\ issued' = issued + 1
            /\ sessions' = [sessions EXCEPT ![w] =
                  Session("share", notes[note_id],
                          [notes[note_id] EXCEPT !.is_shared = TRUE, !.share_token = tok])]
            /\ last' = Idle

\* unshare_note up to the commit: load the note, clear the flag and the token
unshare_note_load(w, note_id) ==
    /\ sessions[w] = NoSession
    /\ UNCHANGED << notes, now, issued, revoked, users >>
    /\ IF get_note_by_id(note_id) = None
       THEN /\ last' = Raise("unshare", note_id, << >>, NotFound)
            /\ UNCHANGED sessions
       ELSE /\ sessions' = [sessions EXCEPT ![w] =
                  Session("unshare", notes[note_id],
                          [notes[note_id] EXCEPT !.is_shared = FALSE,
                                                 !.share_token = NoToken])]
            /\ last' = Idle

\* update_note up to the commit: load the note, validate, assign title and content
update_note_load(w, note_id, title, content_delta) ==
    /\ sessions[w] = NoSession
    /\ UNCHANGED << notes, now, issued, revoked, users >>
    /\ IF get_note_by_id(note_id) = None
       THEN /\ last' = Raise("update", note_id, << >>, NotFound)
            /\ UNCHANGED sessions
       ELSE IF ~json_loads(content_delta)
       THEN /\ last' = Raise("update", note_id, content_delta, InvalidJson)
            /\ UNCHANGED sessions
       ELSE IF utf8_len(content_delta) > MAX_CONTENT_SIZE
       THEN /\ last' = Raise("update", note_id, content_delta, TooLarge)
            /\ UNCHANGED sessions
       ELSE /\ sessions' = [sessions EXCEPT ![w] =
                  Session("update", notes[note_id],
                          [notes[note_id] EXCEPT !.title = title,
                                                 !.content_delta = content_delta])]
            /\ last' = Idle

\* db.session.commit() of a request that has loaded and assigned
session_commit(w) ==
    /\ sessions[w] # NoSession
    /\ ~sessions[w].committed
    /\ UNCHANGED << now, issued, users >>
    /\ LET s == sessions[w] IN
       IF /\ "share_token" \in Dirty(s)
          /\ s.row.share_token # NoToken
          /\ \E k \in DOMAIN notes \ {s.note_id} : notes[k].share_token = s.row.share_token
       THEN \* the unique index on share_token rejects the UPDATE
            /\ last' = Raise(s.op, s.note_id, << >>, IntegrityError)
            /\ sessions' = [sessions EXCEPT ![w] = NoSession]
            /\ UNCHANGED << notes, revoked >>
       ELSE /\ notes' = flush_session(s)
            /\ revoked' = revoked \cup
                  ({notes[s.note_id].share_token} \ {NoToken, notes'[s.note_id].share_token})
            /\ sessions' = [sessions EXCEPT ![w].committed = TRUE]
            /\ last' = [Idle EXCEPT !.op = s.op, !.note_id = s.note_id,
                                    !.title = s.row.title,
                                    !.content_delta = s.row.content_delta,
                                    !.token = IF s.op = "share" THEN s.row.share_token
                                              ELSE NoToken]

\* the response is sent and the session of the request is removed
session_remove(w) ==
    /\ sessions[w] # NoSession
    /\ sessions[w].committed
    /\ sessions' = [sessions EXCEPT ![w] = NoSession]
    /\ UNCHANGED << notes, now, issued, revoked, last, users >>

\* the requests of notes/routes.py, all made for CURRENT_USER_ID
Next ==
    \/ \E e \in Edits \cup BadEdits : create_note(CURRENT_USER_ID, e[1], e[2])
    \/ \E id \in NoteIds, e \in Edits \cup BadEdits : update_note(id, e[1], e[2])
    \/ \E id \in NoteIds : delete_note(id)
    \/ \E id \in NoteIds : share_note(id)
    \/ \E id \in NoteIds : unshare_note(id)
    \/ Tick

Spec == Init /\ [][Next]_vars

\* the service called with every payload, for either owner
NextContent ==
    \/ \E r \in Requests : create_note(r[1], r[2], r[3])
    \/ \E id \in NoteIds, r \in Requests : update_note(id, r[2], r[3])
    \/ \E id \in NoteIds : delete_note(id)

SpecContent == Init /\ [][NextContent]_vars

\* the calls of the user service that users/routes.py makes for accounts
NextAccounts ==
    \/ \E e \in Emails, p \in Passwords : create_user(e, p)
    \/ \E id \in UserTableIds, old \in Passwords, new \in Passwords :
          update_password(id, old, new)
    \/ \E id \in UserTableIds : delete_user(id)

SpecAccounts == Init /\ [][NextAccounts]_vars

\* users come and go next to the note service, notes made for either owner id
NextUsers ==
    \/ \E e \in Emails, p \in Passwords : create_user(e, p)
    \/ \E id \in UserTableIds : delete_user(id)
    \/ \E u \in UserIds : create_note(u, Shopping, Hello)
    \/ \E id \in NoteIds : share_note(id)
    \/ \E id \in NoteIds : delete_note(id)

SpecUsers == Init /\ [][NextUsers]_vars

\* the note service called for either owner while the clock moves on
NextOwners ==
    \/ \E u \in UserIds : create_note(u, Shopping, Hello)
    \/ \E id \in NoteIds, e \in Edits : update_note(id, e[1], e[2])
    \/ \E id \in NoteIds : share_note(id)
    \/ \E id \in NoteIds : unshare_note(id)
    \/ Tick

SpecOwners == Init /\ [][NextOwners]_vars

\* two requests at a time on the one note CURRENT_USER_ID has made
NextConcurrent ==
    \/ DOMAIN notes = {} /\ create_note(CURRENT_USER_ID, Shopping, Hello)
    \/ \E w \in Workers, id \in NoteIds : share_note_load(w, id)
    \/ \E w \in Workers, id \in NoteIds : unshare_note_load(w, id)
    \/ \E w \in Workers, id \in NoteIds, t \in Titles, c \in UpdateContents :
          update_note_load(w, id, t, c)
    \/ \E w \in Workers : session_commit(w)
    \/ \E w \in Workers : session_remove(w)

SpecConcurrent == Init /\ [][NextConcurrent]_vars

TypeOK ==
    /\ DOMAIN notes \subseteq NoteIds
    /\ \A k \in DOMAIN notes :
          /\ notes[k].id = k
          /\ notes[k].user_id \in UserIds
          /\ notes[k].title \in Titles
          /\ notes[k].content_delta \in Payloads
          /\ notes[k].is_shared \in BOOLEAN
          /\ notes[k].share_token \in Tokens \cup {NoToken}
          /\ notes[k].created_at \in 0..MaxTime
          /\ notes[k].updated_at \in 0..MaxTime
    /\ now \in 0..MaxTime
    /\ issued \in 0..MaxTokens
    /\ revoked \subseteq Tokens
    /\ DOMAIN users \subseteq UserTableIds
    /\ \A k \in DOMAIN users :
          /\ users[k].id = k
          /\ users[k].email \in Emails
          /\ users[k].password_hash \in { generate_password_hash(p) : p \in Passwords }
          /\ users[k].created_at \in 0..MaxTime
    /\ DOMAIN sessions = Workers

(***************************************************************************)
(* Properties.                                                             *)
(***************************************************************************)
\* a call of op that returned without raising
Returned(l, op) == l.op = op /\ l.error = Ok

\* C1: in every reachable state every stored note has a share_token
\* (non-null) if and only if its is_shared is true.
C1_TokenIffShared ==
    \A k \in DOMAIN notes : (notes[k].share_token # NoToken) <=> notes[k].is_shared

\* an unshare has just cleared a note while another note is still shared
C1_Witness ==
    /\ Returned(last, "unshare")
    /\ revoked # {}
    /\ ~notes[last.note_id].is_shared
    /\ \E k \in DOMAIN notes : notes[k].is_shared /\ notes[k].share_token \in Tokens

\* C2: get_note_by_token never returns a note whose is_shared is false,
\* whatever the token (None included), and a token whose sharing was ended
\* resolves to nothing in every later state.
C2_RevokedNeverResolves ==
    /\ \A t \in Tokens \cup {NoToken} :
          get_note_by_token(t) # None => get_note_by_token(t).is_shared
    /\ \A t \in revoked : get_note_by_token(t) = None

\* a note was shared, unshared, and shared again: its first token is revoked
\* while its second one resolves
C2_Witness ==
    \E k \in DOMAIN notes, t \in revoked :
       /\ Returned(last, "share") /\ last.note_id = k /\ last.old_token = NoToken
       /\ t < notes[k].share_token
       /\ Cardinality(DOMAIN notes) = 1

\* C3: share_note on a note that is shared already stores a token other than
\* the old one; right after it the old token resolves to nothing and the new
\* one to the note; at no time do two tokens resolve to the same note.
C3_ReshareReplacesToken ==
    /\ (Returned(last, "share") /\ last.old_token # NoToken) =>
          /\ last.token # last.old_token
          /\ get_note_by_id(last.note_id) # None
          /\ get_note_by_id(last.note_id).share_token = last.token
          /\ get_note_by_token(last.old_token) = None
          /\ get_note_by_token(last.token) = get_note_by_id(last.note_id)
    /\ \A k \in DOMAIN notes :
          Cardinality({ t \in Tokens : get_note_by_token(t) # None
                                       /\ get_note_by_token(t).id = k }) <= 1

\* a shared note has just been shared again
C3_Witness ==
    /\ Returned(last, "share")
    /\ last.old_token \in Tokens
    /\ last.token \in Tokens

\* C4: share_note on an existing note sets is_shared, stores the token it
\* returns, and that token resolves to exactly this note; a token that
\* resolves to a note keeps resolving to it over every step that is not a
\* share, unshare or delete of that note.
C4_ShareStep ==
    Returned(last', "share") =>
       /\ last'.note_id \in DOMAIN notes
       /\ session_get(notes', last'.note_id) # None
       /\ session_get(notes', last'.note_id).is_shared
       /\ session_get(notes', last'.note_id).share_token = last'.token
       /\ last'.token \in Tokens
       /\ query_by_token(notes', last'.token) = session_get(notes', last'.note_id)

C4_KeepStep ==
    \A k \in DOMAIN notes, t \in Tokens :
       ( /\ get_note_by_token(t) = notes[k]
         /\ ~(last'.op \in {"share", "unshare", "delete"} /\ last'.note_id = k) )
       => /\ query_by_token(notes', t) # None
          /\ query_by_token(notes', t).id = k

C4_ShareResolves == [][C4_ShareStep /\ C4_KeepStep]_vars

\* a shared note has been edited and its token still resolves to it
C4_Witness ==
    /\ Returned(last, "update")
    /\ get_note_by_id(last.note_id) # None
    /\ get_note_by_id(last.note_id).is_shared
    /\ get_note_by_token(get_note_by_id(last.note_id).share_token) = get_note_by_id(last.note_id)
    /\ get_note_by_id(last.note_id).updated_at > get_note_by_id(last.note_id).created_at

\* C5: a create_note or update_note that fails validation (invalid JSON or
\* too large) leaves the notes table exactly as it was: no row added, no
\* column of the target row changed.
C5_FailedValidationStep ==
    (last'.op \in {"create", "update"} /\ last'.error \in {InvalidJson, TooLarge})
       => notes' = notes

C5_FailedValidationLeavesStore == [][C5_FailedValidationStep]_vars

\* an update of a shared, already edited note has been rejected as too large
C5_Witness ==
    /\ last.op = "update"
    /\ last.error = TooLarge
    /\ get_note_by_id(last.note_id) # None
    /\ get_note_by_id(last.note_id).is_shared
    /\ get_note_by_id(last.note_id).content_delta = Number
    /\ get_note_by_id(last.note_id).updated_at < now

(***************************************************************************)
(* What the payloads of the model are, told without the scanner: which of  *)
(* them are JSON texts, which are at most MAX_CONTENT_SIZE bytes long, and *)
(* which have the shape of a delta, an object {"ops": [...]} whose list    *)
(* holds {"insert": <string>} operations only.                             *)
(***************************************************************************)
JsonTexts == { Hello, EmptyOps, Number, FooObject, AtLimit, OverLimit, WideOver, ThreeMB }
WithinLimit == { Hello, EmptyOps, Number, FooObject, AtLimit,
                 NotJson, Unclosed, ExtraData, RawNewline }

\* s ends at i with the two tokens ] }
ClosesOps(s, i) == i + 1 = Len(s) /\ s[i].k = "]" /\ s[i + 1].k = "}"

IsInsertOp(s, i) ==
    /\ i + 4 <= Len(s)
    /\ s[i].k = "{" /\ s[i + 1] = Str("insert", 6, 6) /\ s[i + 2].k = ":"
    /\ s[i + 3].k = "str" /\ s[i + 4].k = "}"

RECURSIVE IsOpsList(_, _)
IsOpsList(s, i) ==
    /\ IsInsertOp(s, i)
    /\ IF i + 5 <= Len(s) /\ s[i + 5].k = "," THEN IsOpsList(s, i + 6) ELSE ClosesOps(s, i + 5)

IsDelta(s) ==
    /\ Len(s) >= 6
    /\ s[1].k = "{" /\ s[2] = Str("ops", 3, 3) /\ s[3].k = ":" /\ s[4].k = "["
    /\ (ClosesOps(s, 5) \/ IsOpsList(s, 5))

\* create_note or update_note got as far as validating its content
Validated(l) == l.op \in {"create", "update"} /\ l.error # NotFound

\* C6 as stated: validation succeeds if and only if the content has the
\* shape of a delta and is at most MAX_CONTENT_SIZE bytes long.
C6_AcceptsExactlyDeltas ==
    Validated(last) =>
       ((last.error = Ok) <=> (IsDelta(last.content_delta)
                               /\ last.content_delta \in WithinLimit))

\* C6: validation, in create_note and in update_note alike, succeeds if and
\* only if the content is a JSON text (of any shape) of at most 2,097,152
\* bytes; invalid JSON is rejected as such whatever its size, JSON of more
\* bytes as too large; 2,097,152 bytes pass and 2,097,153 do not.
C6_AcceptsExactlyJson ==
    Validated(last) =>
       /\ (last.error = Ok) <=> (last.content_delta \in JsonTexts \cap WithinLimit)
       /\ (last.error = InvalidJson) <=> (last.content_delta \notin JsonTexts)
       /\ (last.error = TooLarge) <=> (last.content_delta \in JsonTexts \ WithinLimit)
       /\ last.content_delta = AtLimit => utf8_len(last.content_delta) = 2097152
       /\ last.content_delta = OverLimit => utf8_len(last.content_delta) = 2097153

\* an update has accepted a payload of exactly 2,097,152 bytes
C6_Witness ==
    /\ Returned(last, "update")
    /\ last.content_delta = AtLimit
    /\ get_note_by_id(last.note_id).content_delta = AtLimit

\* C7 as stated: every stored content has the shape of a delta and is at
\* most MAX_CONTENT_SIZE bytes long.
C7_StoredIsDelta ==
    \A k \in DOMAIN notes :
       IsDelta(notes[k].content_delta) /\ notes[k].content_delta \in WithinLimit

\* C7: in every reachable state the content of every stored note is a JSON
\* text of at most 2,097,152 bytes.
C7_StoredIsValidJson ==
    \A k \in DOMAIN notes : notes[k].content_delta \in JsonTexts \cap WithinLimit

\* a note holding a payload of the full size has refused a larger one
C7_Witness ==
    /\ last.op = "update"
    /\ last.error = TooLarge
    /\ get_note_by_id(last.note_id).content_delta = AtLimit

\* C8: delete_note on an existing note removes the row (get_note_by_id
\* finds nothing, the token it had resolves to nothing, the other rows stay);
\* delete_note of an id that is not stored, the id of a note just deleted
\* included, raises "Note not found" and leaves the table unchanged.
C8_DeleteStep ==
    /\ Returned(last', "delete") =>
          /\ last'.note_id \in DOMAIN notes
          /\ session_get(notes', last'.note_id) = None
          /\ query_by_token(notes', notes[last'.note_id].share_token) = None
          /\ \A k \in DOMAIN notes \ {last'.note_id} : session_get(notes', k) = notes[k]
    /\ (last'.op = "delete" /\ last'.note_id \notin DOMAIN notes) =>
          /\ last'.error = NotFound
          /\ notes' = notes
    /\ (last'.op = "delete" /\ last'.error = NotFound) => notes' = notes
    /\ (Returned(last, "delete") /\ last'.op = "delete" /\ last'.note_id = last.note_id) =>
          last'.error = NotFound

C9_CreateRoundTrip ==
    Returned(last, "create") =>
       /\ get_note_by_id(last.note_id) # None
       /\ get_note_by_id(last.note_id).id = last.note_id
       /\ get_note_by_id(last.note_id).title = last.title
       /\ get_note_by_id(last.note_id).content_delta = last.content_delta
       /\ get_note_by_id(last.note_id).user_id = last.user_id
       /\ get_note_by_id(last.note_id).is_shared = FALSE
       /\ get_note_by_id(last.note_id).share_token = NoToken

\* a second owner has created a note next to a note of the first
C9_Witness ==
    /\ Returned(last, "create")
    /\ last.user_id = 2
    /\ last.title = Shopping
    /\ last.content_delta = FooObject
    /\ \E k \in DOMAIN notes : notes[k].user_id = CURRENT_USER_ID

\* the columns of a row other than its timestamps
Columns(row) == << row.user_id, row.title, row.content_delta, row.is_shared, row.share_token >>

\* created_at of a stored row never changes
CreatedAtKept == \A k \in DOMAIN notes \cap DOMAIN notes' : notes'[k].created_at = notes[k].created_at

\* C10 as stated: every update_note, share_note and unshare_note that
\* returns sets updated_at to the time of the call, and created_at never
\* changes.
C10_EveryCallStep ==
    /\ \A op \in {"update", "share", "unshare"} :
          Returned(last', op) => notes'[last'.note_id].updated_at = now'
    /\ CreatedAtKept

C10_EveryCallRefreshes == [][C10_EveryCallStep]_vars

\* C10: an update_note, share_note or unshare_note that returns and changes
\* a column of the note sets updated_at to the time of the call; one that
\* changes none (the title and content the note has already, unshare of a
\* note that is not shared) leaves updated_at as it was; created_at never
\* changes.
C10_ChangeStep ==
    /\ \A op \in {"update", "share", "unshare"} :
          Returned(last', op) =>
             IF Columns(notes'[last'.note_id]) # Columns(notes[last'.note_id])
             THEN notes'[last'.note_id].updated_at = now'
             ELSE notes'[last'.note_id].updated_at = notes[last'.note_id].updated_at
    /\ CreatedAtKept

C10_ChangeRefreshes == [][C10_ChangeStep]_vars

\* a note created earlier has just been changed: updated_at is the present
C10_Witness ==
    /\ last.op \in {"update", "share", "unshare"}
    /\ last.error = Ok
    /\ get_note_by_id(last.note_id).created_at < now
    /\ get_note_by_id(last.note_id).updated_at = now

\* the notes of rows that belong to user_id
OwnedBy(rows, user_id) == { k \in DOMAIN rows : rows[k].user_id = user_id }

\* q lists exactly the notes of rows owned by user_id, each once, the later
\* updated_at first
IsListingOf(q, rows, user_id) ==
    /\ DOMAIN q = 1..Cardinality(OwnedBy(rows, user_id))
    /\ { q[i] : i \in DOMAIN q } = OwnedBy(rows, user_id)
    /\ \A i, j \in DOMAIN q : i < j => rows[q[i]].updated_at >= rows[q[j]].updated_at

\* every list get_all_notes may return for any owner is a listing of that
\* owner's stored notes, and it returns one
C11_ListState ==
    \A u \in UserIds :
        /\ get_all_notes(u) # {}
        /\ \A q \in get_all_notes(u) : IsListingOf(q, notes, u)

\* an update, share or unshare that changed a note puts it first in a list
\* of its owner, and first in every list when no other note of the owner
\* carries the same updated_at
C11_MutatedFirstStep ==
    \A op \in {"update", "share", "unshare"} :
        (Returned(last', op) /\ notes' # notes) =>
            LET id == last'.note_id
                u == notes'[id].user_id
            IN  /\ \E q \in query_by_owner(notes', u) : q[1] = id
                /\ (\A k \in OwnedBy(notes', u) \ {id} :
                        notes'[k].updated_at # notes'[id].updated_at)
                   => \A q \in query_by_owner(notes', u) : q[1] = id

StoredWith(rows, email) == { k \in DOMAIN rows : rows[k].email = email }

\* the email is not empty and holds an '@'
WellFormed(email) == Len(email) > 0 /\ "@" \in { email[i] : i \in 1..Len(email) }

\* a call of create_user stores one new user under its email and password
\* when the email is free and well formed and the password has 6 characters
\* or more; otherwise it fails for a condition that does not hold and the
\* users are as before
C12_CreateStep ==
    last'.op = "create_user" =>
        LET email == last'.email
            password == last'.password
            free == StoredWith(users, email) = {}
        IN  IF free /\ WellFormed(email) /\ Len(password) >= 6
            THEN /\ last'.error = Ok
                 /\ last'.user_id \notin DOMAIN users
                 /\ DOMAIN users' = DOMAIN users \cup {last'.user_id}
                 /\ \A k \in DOMAIN users : users'[k] = users[k]
                 /\ users'[last'.user_id].email = email
            ELSE /\ users' = users
                 /\ last'.error \in {EmailTaken, InvalidEmail, WeakPassword}
                 /\ last'.error = EmailTaken => ~free
                 /\ last'.error = InvalidEmail => ~WellFormed(email)
                 /\ last'.error = WeakPassword => Len(password) < 6

\* no two stored users have the same email, and every stored email is well formed
C12_UniqueEmail ==
    \A k \in DOMAIN users :
        /\ StoredWith(users, users[k].email) = {k}
        /\ WellFormed(users[k].email)

\* C12: User.create stores a new user exactly when no stored user has the
\* email, the email is non-empty and contains '@' and the password has at
\* least 6 characters; otherwise it fails with DuplicateEmail, InvalidEmail
\* or WeakPassword and the user store is unchanged; no two stored users
\* ever have the same email.
C12_CreateUser == [](C12_UniqueEmail) /\ [][C12_CreateStep]_vars

\* two users are stored and a third create for a stored email was refused
C12_Witness ==
    /\ Cardinality(DOMAIN users) = 2
    /\ last.op = "create_user"
    /\ last.error = EmailTaken
    /\ StoredWith(users, last.email) # {}
    /\ Len(last.password) >= 6

\* C13: in every reachable state every stored note has an owning user that
\* exists in the user store.
C13_EveryNoteHasOwner ==
    \A k \in DOMAIN notes : notes[k].user_id \in DOMAIN users

\* a delete_user of a stored user removes the user and every note it owned:
\* the owner's list is empty, no formerly owned note is found by id or by
\* its token, and the other users and notes stay; a delete_user of an id
\* that is not stored fails with "User not found" and changes nothing
C14_DeleteUserStep ==
    last'.op = "delete_user" =>
        LET id == last'.user_id IN
        IF id \in DOMAIN users
        THEN /\ last'.error = Ok
             /\ session_get(users', id) = None
             /\ DOMAIN users' = DOMAIN users \ {id}
             /\ \A k \in DOMAIN users' : users'[k] = users[k]
             /\ query_by_owner(notes', id) = { << >> }
             /\ \A k \in OwnedBy(notes, id) :
                   /\ session_get(notes', k) = None
                   /\ notes[k].share_token # NoToken =>
                         query_by_token(notes', notes[k].share_token) = None
             /\ \A k \in DOMAIN notes \ OwnedBy(notes, id) :
                   session_get(notes', k) = notes[k]
        ELSE /\ last'.error = UserNotFound
             /\ users' = users
             /\ notes' = notes

\* C14: after User.delete(id) succeeds the user and every note it owned are
\* gone (the owner's list is empty, no formerly owned note is found by id,
\* none of their share tokens resolves); User.delete of an id that is not
\* stored fails with NotFound and changes nothing.
C14_DeleteUserCascades == [][C14_DeleteUserStep]_vars

\* a user was deleted together with a note it owned whose share token was
\* the only one issued, while the note of the other owner is still stored
C14_Witness ==
    /\ Returned(last, "delete_user")
    /\ last.cascaded = {1}
    /\ issued = 1
    /\ revoked = {1}
    /\ get_note_by_token(1) = None
    /\ DOMAIN notes = {2}
    /\ notes[2].user_id # last.user_id
    /\ ~notes[2].is_shared

\* authenticate finds nobody under an email that is not stored, and whoever
\* it finds is the stored user of that email
C15_AuthenticateState ==
    \A e \in Emails, p \in Passwords :
        /\ StoredWith(users, e) = {} => authenticate(users, e, p) = None
        /\ authenticate(users, e, p) # None =>
              /\ authenticate(users, e, p).email = e
              /\ authenticate(users, e, p) \in { users[k] : k \in DOMAIN users }

\* the password a user was created with, or last changed to, is the only one
\* authenticate accepts for the email of that user: the old one is refused
\* after a change to a different one; deleting the user ends it; no other
\* call changes what authenticate returns
C15_CredentialStep ==
    /\ Returned(last', "create_user") =>
          \A p \in Passwords :
              authenticate(users', last'.email, p) =
                 IF p = last'.password THEN users'[last'.user_id] ELSE None
    /\ Returned(last', "update_password") =>
          LET user == users'[last'.user_id] IN
          /\ authenticate(users', user.email, last'.password) = user
          /\ last'.old_password # last'.password =>
                authenticate(users', user.email, last'.old_password) = None
          /\ \A p \in Passwords \ {last'.password} :
                authenticate(users', user.email, p) = None
          /\ \A e \in Emails \ {user.email}, p \in Passwords :
                authenticate(users', e, p) = authenticate(users, e, p)
    /\ Returned(last', "delete_user") =>
          \A e \in Emails, p \in Passwords :
              authenticate(users', e, p) =
                 IF authenticate(users, e, p) # None
                    /\ authenticate(users, e, p).id = last'.user_id
                 THEN None
                 ELSE authenticate(users, e, p)
    /\ ~(\E op \in {"create_user", "update_password", "delete_user"} : Returned(last', op)) =>
          \A e \in Emails, p \in Passwords :
              authenticate(users', e, p) = authenticate(users, e, p)

\* C15: authenticate returns a user if and only if a stored user has the
\* email and the password matches the current credential of that user, and
\* nothing otherwise; after a successful updatePassword with old different
\* from new, authenticate with old returns nothing and with new the user.
C15_Authenticate == [](C15_AuthenticateState) /\ [][C15_CredentialStep]_vars

\* a password was changed to a different one: the new one authenticates the
\* user, the old one does not, and another user is stored as well
C15_Witness ==
    /\ Returned(last, "update_password")
    /\ last.old_password # last.password
    /\ Cardinality(DOMAIN users) = 2
    /\ authenticate(users, users[last.user_id].email, last.password) = users[last.user_id]
    /\ authenticate(users, users[last.user_id].email, last.old_password) = None

\* a call of update_password sets the hash of the new password, and nothing
\* else, when the user is stored, the old password verifies and the new one
\* has 6 characters or more; otherwise nothing is stored and it fails with
\* "User not found", "Current password is incorrect" or "New password must
\* be at least 6 characters", in that order of precedence
C16_UpdatePasswordStep ==
    last'.op = "update_password" =>
        LET id == last'.user_id
            old == last'.old_password
            new == last'.password
            stored == id \in DOMAIN users
            matches == stored /\ authenticate(users, users[id].email, old) = users[id]
        IN  IF stored /\ matches /\ Len(new) >= 6
            THEN /\ last'.error = Ok
                 /\ users' = [users EXCEPT ![id].password_hash = generate_password_hash(new)]
                 /\ authenticate(users', users[id].email, new) = users'[id]
            ELSE /\ users' = users
                 /\ last'.error = IF ~stored THEN UserNotFound
                                  ELSE IF ~matches THEN WrongPassword
                                  ELSE WeakNewPassword

\* C16: updatePassword changes the stored credential only when the user
\* exists, oldPassword matches the current credential and newPassword has
\* at least 6 characters; otherwise it fails with NotFound, WrongPassword or
\* WeakPassword respectively and the stored credential is unchanged.
C16_UpdatePassword == [][C16_UpdatePasswordStep]_vars

\* the right old password came with a new one that is too short: refused,
\* and the old password still authenticates the user
C16_Witness ==
    /\ last.op = "update_password"
    /\ last.error = WeakNewPassword
    /\ Len(last.password) < 6
    /\ last.user_id \in DOMAIN users
    /\ authenticate(users, users[last.user_id].email, last.old_password) = users[last.user_id]

\* the notes that carry the token
Carrying(rows, share_token) == { k \in DOMAIN rows : rows[k].share_token = share_token }

\* C17: in every reachable state no two distinct notes have the same
\* non-null share_token, so get_note_by_token finds at most one note for
\* any token, the one note that carries it.
C17_TokenUnique ==
    \A t \in Tokens :
        /\ Cardinality(Carrying(notes, t)) <= 1
        /\ \A k \in Carrying(notes, t) : get_note_by_token(t) = notes[k]

\* two notes are shared at once, each under a token of its own
C17_Witness ==
    /\ DOMAIN notes = {1, 2}
    /\ notes[1].share_token \in Tokens
    /\ notes[2].share_token \in Tokens
    /\ get_note_by_token(notes[1].share_token).id = 1
    /\ get_note_by_token(notes[2].share_token).id = 2

\* the other notes, and the set of notes, are as before
OthersKept(id) ==
    /\ DOMAIN notes' = DOMAIN notes
    /\ \A k \in DOMAIN notes \ {id} : notes'[k] = notes[k]

\* a share or unshare that returns leaves id, owner, title, content and
\* created_at of its note and all of every other note; an update that
\* returns leaves id, owner, is_shared, share_token and created_at of its
\* note and all of every other note, stores the title and content it was
\* given, and the token of the note resolves to it as before
C18_FrameStep ==
    /\ \A op \in {"share", "unshare"} :
          Returned(last', op) =>
              LET id == last'.note_id IN
              /\ OthersKept(id)
              /\ notes'[id].id = notes[id].id
              /\ notes'[id].user_id = notes[id].user_id
              /\ notes'[id].title = notes[id].title
              /\ notes'[id].content_delta = notes[id].content_delta
              /\ notes'[id].created_at = notes[id].created_at
    /\ Returned(last', "update") =>
          LET id == last'.note_id IN
          /\ OthersKept(id)
          /\ notes'[id].id = notes[id].id
          /\ notes'[id].user_id = notes[id].user_id
          /\ notes'[id].is_shared = notes[id].is_shared
          /\ notes'[id].share_token = notes[id].share_token
          /\ notes'[id].created_at = notes[id].created_at
          /\ notes'[id].title = last'.title
          /\ notes'[id].content_delta = last'.content_delta
          /\ \A t \in Tokens :
                query_by_token(notes, t) = notes[id] => query_by_token(notes', t) = notes'[id]

\* C18: share and unshare change only is_shared and share_token (and
\* updated_at) of the note with that id and leave its title, content and
\* owner and every other note; update changes only title and content (and
\* updated_at) and leaves is_shared and share_token, so that a share link
\* keeps resolving after an edit.
C18_FrameEffects == [][C18_FrameStep]_vars

\* a shared note was edited after the clock moved on: the edit is stored,
\* the link still resolves to the note, and a second note is stored too
C18_Witness ==
    /\ Returned(last, "update")
    /\ DOMAIN notes = {1, 2}
    /\ notes[last.note_id].is_shared
    /\ get_note_by_token(notes[last.note_id].share_token) = notes[last.note_id]
    /\ notes[last.note_id].title = last.title
    /\ notes[last.note_id].content_delta = last.content_delta
    /\ notes[last.note_id].updated_at > notes[last.note_id].created_at

\* the request of w has committed and its response is not sent yet
Done(w) == sessions[w] # NoSession /\ sessions[w].committed

\* C19: when a share request and an unshare request on the same note have
\* both completed, however their loads and commits interleaved, the stored
\* note is what one of the two serial orders leaves (unshared without token,
\* or shared under the token of the share request); share_token is non-null
\* if and only if is_shared holds, and no token resolves to a note whose
\* is_shared is false.
C19_ShareUnshareSerial ==
    \A a \in Workers, b \in Workers :
        ( /\ Done(a) /\ sessions[a].op = "share"
          /\ Done(b) /\ sessions[b].op = "unshare"
          /\ sessions[a].note_id = sessions[b].note_id ) =>
            LET n == notes[sessions[a].note_id] IN
            /\ << n.is_shared, n.share_token >> \in
                  { << FALSE, NoToken >>, << TRUE, sessions[a].row.share_token >> }
            /\ (n.share_token # NoToken) <=> n.is_shared
            /\ \A t \in Tokens : get_note_by_token(t) # None => get_note_by_token(t).is_shared

\* C20: when two update requests on the same note have both completed,
\* however their loads and commits interleaved, the stored title and
\* content are the pair one of the two requests supplied, never the title
\* of one with the content of the other.
C20_LastWriterWins ==
    \A a \in Workers, b \in Workers :
        ( /\ a # b
          /\ Done(a) /\ sessions[a].op = "update"
          /\ Done(b) /\ sessions[b].op = "update"
          /\ sessions[a].note_id = sessions[b].note_id ) =>
            LET n == notes[sessions[a].note_id] IN
            << n.title, n.content_delta >> \in
                { << sessions[a].row.title, sessions[a].row.content_delta >>,
                  << sessions[b].row.title, sessions[b].row.content_delta >> }
====
